---- MODULE Spec2Model ----
(***************************************************************************)
(* precommit.py: update_readme(path) reads README.md, keeps what precedes  *)
(* the first "## Help overview\n" line, and rewrites the file as that      *)
(* prefix, the marker, and one fenced block per command of `commands`.     *)
(*                                                                         *)
(* Text (str) is a sequence of one-character strings; file content and     *)
(* command output (bytes) are sequences of integers 0..255.  One action    *)
(* per statement of update_readme; pc names the line about to execute.     *)
(* The handle of line 17 is a buffered writer: file.write fills its buffer *)
(* and the file at path changes when the buffer is flushed.                *)
(***************************************************************************)
EXTENDS Integers, Sequences, FiniteSets, TLC

VARIABLES
    pc,         \* line of update_readme about to run, or "done" / "failed"
    exists,     \* the path names a file
    readable,   \* the file may be opened "rb"
    writable,   \* the file may be opened "wb"
    disk,       \* bytes of the file at path
    buf,        \* bytes held in the buffer of the write handle
    rh,         \* handle of line 12: "none", "open", "closed"
    wh,         \* handle of line 17: "none", "open", "closed"
    data,       \* local data
    cmds,       \* the module-level command tuple of this run
    i,          \* number of loop iterations of line 20 begun
    output,     \* local output
    error,      \* the exception propagating out of update_readme, or "none"
    invoked,    \* indices of the commands passed to check_output in this run
    captured,   \* outputs returned by check_output in this run
    run,        \* number of the current invocation of the script
    orig,       \* disk when this run began
    origExists, \* exists when this run began
    prevCaptured \* outputs captured by the previous run

vars == <<pc, exists, readable, writable, disk, buf, rh, wh, data, cmds, i, output,
          error, invoked, captured, run, orig, origExists, prevCaptured>>

----------------------------------------------------------------------------
(* Bounds *)

\* pieces concatenated to form the original file content
MaxPieces == 3
\* successive invocations of the script
MaxRuns == 2

----------------------------------------------------------------------------
(* str and bytes *)

Printable == <<" ", "!", "\"", "#", "$", "%", "&", "'", "(", ")", "*", "+", ",", "-", ".", "/", "0", "1", "2", "3", "4", "5", "6", "7", "8", "9", ":", ";", "<", "=", ">", "?", "@", "A", "B", "C", "D", "E", "F", "G", "H", "I", "J", "K", "L", "M", "N", "O", "P", "Q", "R", "S", "T", "U", "V", "W", "X", "Y", "Z", "[", "\\", "]", "^", "_", "a", "b", "c", "d", "e", "f", "g", "h", "i", "j", "k", "l", "m", "n", "o", "p", "q", "r", "s", "t", "u", "v", "w", "x", "y", "z", "{", "|", "}", "~">>

\* code point of an ASCII character: Printable lists 32..95 and 97..126
\* (code 96, the backquote, cannot be written in a TLA+ string)
Ord(c) ==
    IF c = "\n" THEN 10
    ELSE LET k == CHOOSE k \in 1..Len(Printable) : Printable[k] = c
         IN IF k <= 64 THEN 31 + k ELSE 32 + k

\* bytes(s, "ascii"), and the value of a bytes literal b"..."
Ascii(s) == [k \in 1..Len(s) |-> Ord(s[k])]

\* sep.join(parts) on str
RECURSIVE Join(_, _)
Join(sep, parts) ==
    IF parts = <<>> THEN <<>>
    ELSE IF Len(parts) = 1 THEN parts[1]
    ELSE parts[1] \o sep \o Join(sep, Tail(parts))

\* Find as bytes.rfind would have it: the highest index
Find_Last(s, sep) ==
    LET hits == {k \in 1..(Len(s) - Len(sep) + 1) :
                    SubSeq(s, k, k + Len(sep) - 1) = sep}
    IN IF hits = {} THEN 0 ELSE CHOOSE k \in hits : \A m \in hits : k >= m

\* lowest index at which sep occurs in s, 0 if none
Find(s, sep) ==
    LET hits == {k \in 1..(Len(s) - Len(sep) + 1) :
                    SubSeq(s, k, k + Len(sep) - 1) = sep}
    IN IF hits = {} THEN 0 ELSE CHOOSE k \in hits : \A m \in hits : k <= m

\* bytes.split(sep): the parts between successive occurrences of sep
RECURSIVE Split(_, _)
Split(s, sep) ==
    LET k == Find(s, sep)
    IN IF k = 0 THEN <<s>>
       ELSE <<SubSeq(s, 1, k - 1)>> \o Split(SubSeq(s, k + Len(sep), Len(s)), sep)

\* fmt % args on bytes, for a format whose only conversions are %s
RECURSIVE Format(_, _)
Format(fmt, args) ==
    IF fmt = <<>> THEN <<>>
    ELSE IF Len(fmt) >= 2 /\ fmt[1] = 37 /\ fmt[2] = 115
         THEN args[1] \o Format(SubSeq(fmt, 3, Len(fmt)), Tail(args))
         ELSE <<fmt[1]>> \o Format(Tail(fmt), args)

----------------------------------------------------------------------------
(* Program constants *)

\* buffer size of open(path, mode="wb"): the block size of the file system
BufferSize == 4096

marker == Ascii(<<"#", "#", " ", "H", "e", "l", "p", " ", "o", "v", "e", "r", "v", "i", "e", "w", "\n">>)

cargo == <<"c", "a", "r", "g", "o">>
runTok == <<"r", "u", "n">>
dashes == <<"-", "-">>
help == <<"h", "e", "l", "p">>
topic == <<"t", "o", "p", "i", "c">>
chunks == <<"c", "h", "u", "n", "k", "s">>
wavrw == <<"w", "a", "v", "r", "w">>

commands == << <<cargo, runTok, dashes, help>>,
               <<cargo, runTok, dashes, topic, chunks>> >>

\* the format without the space after the echoed arguments
BlockFormat_NoSpace == <<10, 96, 96, 96, 10, 36, 32, 37, 115, 10, 37, 115, 96, 96, 96, 10>>

\* b"\n```\n$ %s \n%s```\n"
BlockFormat == <<10, 96, 96, 96, 10, 36, 32, 37, 115, 32, 10, 37, 115, 96, 96, 96, 10>>

\* args[3:]
Slice3(args) == SubSeq(args, 4, Len(args))

\* the bytes line 22 writes for one command
Block(args, out) ==
    Format(BlockFormat, <<Ascii(Join(<<" ">>, <<wavrw>> \o Slice3(args))), out>>)

----------------------------------------------------------------------------
(* Inputs *)

Pieces == << Ascii(<<"T", "i", "t", "l", "e", "\n", "\n">>),
             marker,
             Ascii(<<"O", "L", "D", " ", "S", "T", "U", "F", "F", "\n">>),
             Ascii(<<"#", "#", " ", "H", "e", "l", "p", " ", "o", "v", "e", "r", "v", "i", "e", "w">>) >>

RECURSIVE Concat(_)
Concat(ss) == IF ss = <<>> THEN <<>> ELSE ss[1] \o Concat(Tail(ss))

\* a preamble six bytes short of the buffer size
LargePiece == [k \in 1..(BufferSize - 6) |-> 120]

\* contents whose prefix fills the buffer, or is larger than it
LargeContents ==
    { LargePiece \o marker \o Pieces[3], LargePiece \o Pieces[1] }

\* the original file contents the model draws
Contents ==
    { Concat([k \in DOMAIN f |-> Pieces[f[k]]]) :
        f \in UNION { [1..n -> 1..Len(Pieces)] : n \in 0..MaxPieces } }
    \cup LargeContents

\* what a command may print
Outputs == { Ascii(<<"u", "s", "a", "g", "e", ":", " ", "f", "o", "o", "\n">>), marker, <<>> }

\* the command tuples the model draws
CommandLists == { commands, <<commands[1]>>, <<commands[2], commands[1]>> }

----------------------------------------------------------------------------
(* State machine *)

Init ==
    /\ pc = "L12"
    /\ exists \in BOOLEAN
    /\ readable \in BOOLEAN
    /\ writable \in BOOLEAN
    /\ disk \in Contents
    /\ (~exists => disk = <<>> /\ readable /\ writable)
    /\ buf = <<>>
    /\ rh = "none"
    /\ wh = "none"
    /\ data = <<>>
    /\ cmds \in CommandLists
    /\ i = 0
    /\ output = <<>>
    /\ error = "none"
    /\ invoked = <<>>
    /\ captured = <<>>
    /\ run = 1
    /\ orig = disk
    /\ origExists = exists
    /\ prevCaptured = <<>>

\* an exception leaves update_readme: nothing below the raising line runs
Raise(exc) ==
    /\ pc' = "failed"
    /\ error' = exc

\* file.write(b) on the buffered handle: b joins the buffer when it fits;
\* otherwise the buffer is flushed to the file, and b follows it to the file
\* when it is larger than the buffer, or becomes the buffer when it is not
FileWrite(b) ==
    IF Len(b) <= BufferSize - Len(buf)
    THEN buf' = buf \o b /\ disk' = disk
    ELSE IF Len(b) > BufferSize
         THEN disk' = disk \o buf \o b /\ buf' = <<>>
         ELSE disk' = disk \o buf /\ buf' = b

\* line 12 with mode "w+b": creates or empties the file before reading it
OpenRead_WPlus ==
    /\ pc = "L12"
    /\ IF exists /\ ~writable
       THEN Raise("PermissionError") /\ UNCHANGED <<rh, exists, disk>>
       ELSE pc' = "L13" /\ rh' = "open" /\ exists' = TRUE /\ disk' = <<>>
            /\ error' = error
    /\ UNCHANGED <<readable, writable, buf, wh, data, cmds, i, output,
                   invoked, captured, run, orig, origExists, prevCaptured>>

\* line 12: file = open(path, mode="rb")
OpenRead ==
    /\ pc = "L12"
    /\ IF ~exists THEN Raise("FileNotFoundError") /\ rh' = rh
       ELSE IF ~readable THEN Raise("PermissionError") /\ rh' = rh
       ELSE pc' = "L13" /\ rh' = "open" /\ error' = error
    /\ UNCHANGED <<exists, readable, writable, disk, buf, wh, data, cmds, i,
                   output, invoked, captured, run, orig, origExists,
                   prevCaptured>>

\* line 13: data = file.read()
ReadAll ==
    /\ pc = "L13"
    /\ rh = "open"
    /\ data' = disk
    /\ pc' = "L14"
    /\ UNCHANGED <<exists, readable, writable, disk, buf, rh, wh, cmds, i,
                   output, error, invoked, captured, run, orig, origExists,
                   prevCaptured>>

\* line 14 left out: the read handle is never closed
CloseRead_Skip ==
    /\ pc = "L14"
    /\ pc' = "L15"
    /\ UNCHANGED <<exists, readable, writable, disk, buf, rh, wh, data, cmds,
                   i, output, error, invoked, captured, run, orig, origExists,
                   prevCaptured>>

\* line 14: file.close()
CloseRead ==
    /\ pc = "L14"
    /\ rh' = "closed"
    /\ pc' = "L15"
    /\ UNCHANGED <<exists, readable, writable, disk, buf, wh, data, cmds, i,
                   output, error, invoked, captured, run, orig, origExists,
                   prevCaptured>>

\* data.rsplit(marker, 1)[0]: cut at the last occurrence
Prefix_Last(d) ==
    LET k == Find_Last(d, marker)
    IN IF k = 0 THEN d ELSE SubSeq(d, 1, k - 1)

\* data[:data.find(marker)]: find returns -1 when the marker is absent
Prefix_FindSlice(d) ==
    LET k == Find(d, marker)
    IN IF k = 0 THEN SubSeq(d, 1, Len(d) - 1) ELSE SubSeq(d, 1, k - 1)

\* data.split(marker)[0]
Prefix(d) == Split(d, marker)[1]

\* line 15: data = data.split(marker)[0]
SplitData ==
    /\ pc = "L15"
    /\ data' = Prefix(data)
    /\ pc' = "L17"
    /\ UNCHANGED <<exists, readable, writable, disk, buf, rh, wh, cmds, i,
                   output, error, invoked, captured, run, orig, origExists,
                   prevCaptured>>

\* line 17 with mode "ab": the old content is kept
OpenWrite_Append ==
    /\ pc = "L17"
    /\ IF exists /\ ~writable
       THEN Raise("PermissionError") /\ UNCHANGED <<wh, disk, buf, exists>>
       ELSE pc' = "L18" /\ wh' = "open" /\ disk' = disk /\ buf' = <<>>
            /\ exists' = TRUE /\ error' = error
    /\ UNCHANGED <<readable, writable, rh, data, cmds, i, output,
                   invoked, captured, run, orig, origExists, prevCaptured>>

\* line 17: file = open(path, mode="wb"), which creates or empties the file
\* and starts with an empty buffer
OpenWrite ==
    /\ pc = "L17"
    /\ IF exists /\ ~writable
       THEN Raise("PermissionError") /\ UNCHANGED <<wh, disk, buf, exists>>
       ELSE pc' = "L18" /\ wh' = "open" /\ disk' = <<>> /\ buf' = <<>>
            /\ exists' = TRUE /\ error' = error
    /\ UNCHANGED <<readable, writable, rh, data, cmds, i, output,
                   invoked, captured, run, orig, origExists, prevCaptured>>

\* line 18: file.write(data)
WriteData ==
    /\ pc = "L18"
    /\ wh = "open"
    /\ FileWrite(data)
    /\ pc' = "L19"
    /\ UNCHANGED <<exists, readable, writable, rh, wh, data, cmds, i, output,
                   error, invoked, captured, run, orig, origExists, prevCaptured>>

\* line 19: file.write(marker)
WriteMarker ==
    /\ pc = "L19"
    /\ wh = "open"
    /\ FileWrite(marker)
    /\ pc' = "L20"
    /\ UNCHANGED <<exists, readable, writable, rh, wh, data, cmds, i, output,
                   error, invoked, captured, run, orig, origExists, prevCaptured>>

\* line 20: for args in commands: the next command, or the end of the loop
ForNext ==
    /\ pc = "L20"
    /\ IF i < Len(cmds) THEN i' = i + 1 /\ pc' = "L21"
       ELSE i' = i /\ pc' = "L23"
    /\ UNCHANGED <<exists, readable, writable, disk, buf, rh, wh, data, cmds,
                   output, error, invoked, captured, run, orig, origExists,
                   prevCaptured>>

\* line 21: output = subprocess.check_output(args) returns the child's stdout
CheckOutputOk ==
    /\ pc = "L21"
    /\ \E out \in Outputs :
         /\ output' = out
         /\ captured' = Append(captured, out)
    /\ invoked' = Append(invoked, i)
    /\ pc' = "L22"
    /\ UNCHANGED <<exists, readable, writable, disk, buf, rh, wh, data, cmds,
                   i, error, run, orig, origExists, prevCaptured>>

\* line 21 inside try/except that restores the original content
CheckOutputFail_Rollback ==
    /\ pc = "L21"
    /\ \E exc \in {"CalledProcessError", "FileNotFoundError"} : Raise(exc)
    /\ invoked' = Append(invoked, i)
    /\ disk' = orig
    /\ buf' = <<>>
    /\ UNCHANGED <<exists, readable, writable, rh, wh, data, cmds, i,
                   output, captured, run, orig, origExists, prevCaptured>>

\* line 21 inside try/except that notes the error and goes on with the loop
CheckOutputFail_Continue ==
    /\ pc = "L21"
    /\ \E exc \in {"CalledProcessError", "FileNotFoundError"} : error' = exc
    /\ pc' = "L20"
    /\ invoked' = Append(invoked, i)
    /\ UNCHANGED <<exists, readable, writable, disk, buf, rh, wh, data, cmds,
                   i, output, captured, run, orig, origExists, prevCaptured>>

\* line 21: the child exits non-zero (CalledProcessError) or cannot be started
\* (FileNotFoundError); its output is not returned.  Line 23 is not reached:
\* the write handle stays open with its buffer
CheckOutputFail ==
    /\ pc = "L21"
    /\ \E exc \in {"CalledProcessError", "FileNotFoundError"} : Raise(exc)
    /\ invoked' = Append(invoked, i)
    /\ UNCHANGED <<exists, readable, writable, disk, buf, rh, wh, data, cmds,
                   i, output, captured, run, orig, origExists, prevCaptured>>

\* line 22 formatting the first command's arguments for every block
WriteBlock_FirstArgs ==
    /\ pc = "L22"
    /\ wh = "open"
    /\ FileWrite(Block(cmds[1], output))
    /\ pc' = "L20"
    /\ UNCHANGED <<exists, readable, writable, rh, wh, data, cmds, i, output,
                   error, invoked, captured, run, orig, origExists, prevCaptured>>

\* line 22: file.write(b"\n```\n$ %s \n%s```\n" % (..., output))
WriteBlock ==
    /\ pc = "L22"
    /\ wh = "open"
    /\ FileWrite(Block(cmds[i], output))
    /\ pc' = "L20"
    /\ UNCHANGED <<exists, readable, writable, rh, wh, data, cmds, i, output,
                   error, invoked, captured, run, orig, origExists, prevCaptured>>

\* line 23: file.close() flushes the buffer to the file
CloseWrite ==
    /\ pc = "L23"
    /\ disk' = disk \o buf
    /\ buf' = <<>>
    /\ wh' = "closed"
    /\ pc' = "done"
    /\ UNCHANGED <<exists, readable, writable, rh, data, cmds, i, output,
                   error, invoked, captured, run, orig, origExists, prevCaptured>>

\* the exception is dropped and the buffer with it, nothing is flushed
Finalize_Discard ==
    /\ pc = "failed"
    /\ pc' = "exited"
    /\ IF wh = "open"
       THEN wh' = "closed" /\ buf' = <<>> /\ disk' = disk
       ELSE UNCHANGED <<wh, buf, disk>>
    /\ UNCHANGED <<exists, readable, writable, rh, data, cmds, i, output,
                   error, invoked, captured, run, orig, origExists, prevCaptured>>

\* lines 25-26: the exception leaves the script; once it is released (at the
\* latest when the process exits) the frame's file object is finalised, and a
\* write handle left open flushes its buffer to the file and closes
Finalize ==
    /\ pc = "failed"
    /\ pc' = "exited"
    /\ IF wh = "open"
       THEN wh' = "closed" /\ disk' = disk \o buf /\ buf' = <<>>
       ELSE UNCHANGED <<wh, buf, disk>>
    /\ UNCHANGED <<exists, readable, writable, rh, data, cmds, i, output,
                   error, invoked, captured, run, orig, origExists, prevCaptured>>

\* lines 25-26: the script is run again after a run that succeeded
Rerun ==
    /\ pc = "done"
    /\ run < MaxRuns
    /\ pc' = "L12"
    /\ run' = run + 1
    /\ rh' = "none"
    /\ wh' = "none"
    /\ data' = <<>>
    /\ i' = 0
    /\ output' = <<>>
    /\ invoked' = <<>>
    /\ captured' = <<>>
    /\ prevCaptured' = captured
    /\ orig' = disk
    /\ origExists' = exists
    /\ UNCHANGED <<exists, readable, writable, disk, buf, cmds, error>>

Next ==
    \/ OpenRead
    \/ ReadAll
    \/ CloseRead
    \/ SplitData
    \/ OpenWrite
    \/ WriteData
    \/ WriteMarker
    \/ ForNext
    \/ CheckOutputOk
    \/ CheckOutputFail
    \/ WriteBlock
    \/ CloseWrite
    \/ Finalize
    \/ Rerun

Spec == Init /\ [][Next]_vars

----------------------------------------------------------------------------
(* Properties *)

\* sep occurs in s
Contains(s, sep) ==
    \E k \in 1..(Len(s) - Len(sep) + 1) : SubSeq(s, k, k + Len(sep) - 1) = sep

\* number of positions at which sep occurs in s
Occurrences(s, sep) ==
    Cardinality({k \in 1..(Len(s) - Len(sep) + 1) :
                    SubSeq(s, k, k + Len(sep) - 1) = sep})

\* the blocks of the first n commands, each with the output captured for it
Blocks(n) == Concat([k \in 1..n |-> Block(cmds[k], captured[k])])

\* the regenerated section of a run that captured every command's output
Regenerated == Blocks(Len(cmds))

\* the lengths of every P with orig = P + marker + Q and no marker in P
MarkerSplits ==
    {k \in 0..(Len(orig) - Len(marker)) :
        /\ SubSeq(orig, k + 1, k + Len(marker)) = marker
        /\ ~Contains(SubSeq(orig, 1, k), marker)}

\* s is a prefix of t, and a proper one
IsPrefix(s, t) == Len(s) <= Len(t) /\ SubSeq(t, 1, Len(s)) = s
IsProperPrefix(s, t) == Len(s) < Len(t) /\ SubSeq(t, 1, Len(s)) = s

\* the bytes handed to the write handle since it was opened: those flushed
\* to the file and those still in the buffer
Written == disk \o buf

\* the run has stopped on an exception raised by line 12, 17 or 21
Stopped == pc \in {"failed", "exited"}
FailedAtOpenRead == Stopped /\ rh = "none"
FailedAtOpenWrite == Stopped /\ rh = "closed" /\ wh = "none"
FailedAtCommand == Stopped /\ wh # "none"

\* C1: preamble preservation: when the original content is P + marker + Q,
\* P without the marker, a successful run leaves P + marker + the blocks
\* built from the commands and their outputs, whatever Q was.
C1_PreamblePreserved ==
    pc = "done" =>
        \A k \in MarkerSplits :
            disk = SubSeq(orig, 1, k) \o marker \o Regenerated

\* a first run succeeded on a file with a non-empty preamble and a tail that
\* holds the marker again
C1_Witness ==
    /\ pc = "done"
    /\ run = 1
    /\ Len(cmds) = 2
    /\ Occurrences(orig, marker) >= 2
    /\ \E k \in MarkerSplits : k > 0 /\ k + Len(marker) < Len(orig)

\* C2: idempotence: a successful run that captures the same outputs as the
\* successful run before it leaves the file byte-identical to what that
\* run left.
C2_Idempotent ==
    (pc = "done" /\ run >= 2 /\ captured = prevCaptured) => disk = orig

\* a second run succeeded with the same outputs, one of them holding the marker
C2_Witness ==
    /\ pc = "done"
    /\ run = 2
    /\ captured = prevCaptured
    /\ Len(captured) = 2
    /\ \E k \in 1..Len(captured) : Contains(captured[k], marker)

\* C3: marker absent: when the original content C holds no marker, the split
\* keeps all of C, no error comes from the missing marker, and a successful
\* run leaves C + marker + the regenerated section, the marker occurring
\* once in C + marker.
C3_MarkerAbsent ==
    ~Contains(orig, marker) =>
        /\ pc \in {"L17", "L18", "L19"} => data = orig
        /\ (Stopped /\ rh = "closed") => data = orig
        /\ pc = "done" =>
              /\ disk = orig \o marker \o Regenerated
              /\ Occurrences(orig \o marker, marker) = 1

\* a run succeeded on a non-empty file that holds no marker
C3_Witness ==
    /\ pc = "done"
    /\ ~Contains(orig, marker)
    /\ orig # <<>>
    /\ Len(cmds) = 2

\* C4: command order: command k is the k-th invoked, and while the loop runs
\* what has been written is the prefix, the marker and one block per
\* completed command, block k made from command k and the output captured
\* for command k; after a successful run the file holds exactly that, with
\* Len(cmds) blocks.
C4_CommandOrder ==
    /\ invoked = [k \in 1..Len(invoked) |-> k]
    /\ pc \in {"L20", "L23"} =>
          /\ Len(captured) = i
          /\ Written = data \o marker \o Blocks(i)
    /\ pc = "L21" =>
          /\ Len(captured) = i - 1
          /\ Written = data \o marker \o Blocks(i - 1)
    /\ pc = "L22" =>
          /\ captured[i] = output
          /\ Written = data \o marker \o Blocks(i - 1)
    /\ pc = "done" =>
          /\ i = Len(cmds)
          /\ Len(captured) = i
          /\ disk = data \o marker \o Blocks(i)

\* a run of two different commands with two different outputs succeeded
C4_Witness ==
    /\ pc = "done"
    /\ Len(cmds) = 2
    /\ cmds[1] # cmds[2]
    /\ captured[1] # captured[2]

\* the echoed arguments: each token after the first three, a space before it
RECURSIVE ArgText(_)
ArgText(toks) ==
    IF toks = <<>> THEN <<>> ELSE <<32>> \o Ascii(toks[1]) \o ArgText(Tail(toks))

\* "\n```\n$ wavrw" args " \n" out "```\n"
BlockWithSpace(args, out) ==
    <<10, 96, 96, 96, 10, 36, 32, 119, 97, 118, 114, 119>>
        \o ArgText(SubSeq(args, 4, Len(args)))
        \o <<32, 10>> \o out \o <<96, 96, 96, 10>>

\* "\n```\n$ wavrw" args "\n" out "```\n"
BlockNoSpace(args, out) ==
    <<10, 96, 96, 96, 10, 36, 32, 119, 97, 118, 114, 119>>
        \o ArgText(SubSeq(args, 4, Len(args)))
        \o <<10>> \o out \o <<96, 96, 96, 10>>

\* "Title\n\n## Help overview\nOLD STUFF\n"
ScenarioContent ==
    <<84, 105, 116, 108, 101, 10, 10, 35, 35, 32, 72, 101, 108, 112, 32, 111,
      118, 101, 114, 118, 105, 101, 119, 10, 79, 76, 68, 32, 83, 84, 85, 70,
      70, 10>>

\* "usage: foo\n"
ScenarioOutput == <<117, 115, 97, 103, 101, 58, 32, 102, 111, 111, 10>>

\* a first run on the scenario file, with the single command cargo run -- help
\* printing the scenario output, succeeded
Scenario ==
    /\ pc = "done"
    /\ run = 1
    /\ orig = ScenarioContent
    /\ cmds = <<commands[1]>>
    /\ captured = <<ScenarioOutput>>

\* "Title\n\n## Help overview\n\n```\n$ wavrw help \nusage: foo\n```\n"
ScenarioResult ==
    <<84, 105, 116, 108, 101, 10, 10, 35, 35, 32, 72, 101, 108, 112, 32, 111,
      118, 101, 114, 118, 105, 101, 119, 10, 10, 96, 96, 96, 10, 36, 32, 119,
      97, 118, 114, 119, 32, 104, 101, 108, 112, 32, 10, 117, 115, 97, 103, 101,
      58, 32, 102, 111, 111, 10, 96, 96, 96, 10>>

\* "Title\n\n## Help overview\n\n```\n$ wavrw help\nusage: foo\n```\n"
ScenarioResultNoSpace ==
    <<84, 105, 116, 108, 101, 10, 10, 35, 35, 32, 72, 101, 108, 112, 32, 111,
      118, 101, 114, 118, 105, 101, 119, 10, 10, 96, 96, 96, 10, 36, 32, 119,
      97, 118, 114, 119, 32, 104, 101, 108, 112, 10, 117, 115, 97, 103, 101, 58,
      32, 102, 111, 111, 10, 96, 96, 96, 10>>

\* C5 (amended): block format: the scenario ends with the echo line
\* "$ wavrw help " (one space before the newline); in general the file after
\* a successful run is the prefix, the marker once, and per command "\n```\n",
\* "$ wavrw", a space and each token after the first three, one space, a
\* newline, the output verbatim, "```\n".
C5_BlockFormat ==
    /\ Scenario => disk = ScenarioResult
    /\ pc = "done" =>
          disk = data \o marker
                   \o Concat([k \in 1..Len(cmds) |->
                                 BlockWithSpace(cmds[k], captured[k])])

\* the scenario of C5 has run to success
C5_Witness == Scenario /\ disk # <<>>

\* C5 as stated: the echo line ends directly after the last argument
C5_Original ==
    /\ Scenario => disk = ScenarioResultNoSpace
    /\ pc = "done" =>
          disk = data \o marker
                   \o Concat([k \in 1..Len(cmds) |->
                                 BlockNoSpace(cmds[k], captured[k])])

\* the second of two commands has failed
SecondOfTwoFailed == Len(cmds) = 2 /\ invoked = <<1, 2>>

\* P + marker + the first command's block, P the original content up to its
\* first marker (all of it when it holds none)
PrefixMarkerFirstBlock ==
    LET p == IF MarkerSplits = {} THEN orig
             ELSE SubSeq(orig, 1, CHOOSE k \in MarkerSplits : TRUE)
    IN p \o marker \o Block(cmds[1], captured[1])

\* C6 (amended): failure is not atomic: with two commands, the first
\* succeeding and the second failing, the run stops failed having written the
\* preserved prefix, the marker and the first command's whole block and
\* nothing of a second block; the file holds the flushed part of these bytes
\* when the exception is raised and all of them once the write handle has
\* been finalised; the original content is back only if it was exactly that.
C6_NotAtomic ==
    (Stopped /\ SecondOfTwoFailed) =>
        /\ Len(captured) = 1
        /\ Cardinality(MarkerSplits) <= 1
        /\ Written = PrefixMarkerFirstBlock
        /\ IsPrefix(disk, PrefixMarkerFirstBlock)
        /\ pc = "exited" =>
              /\ disk = PrefixMarkerFirstBlock
              /\ orig # PrefixMarkerFirstBlock => disk # orig

\* the second of two commands failed on a file that had content after the
\* marker, and the write handle has been finalised
C6_Witness ==
    /\ pc = "exited"
    /\ SecondOfTwoFailed
    /\ \E k \in MarkerSplits : k + Len(marker) < Len(orig)

\* C6 as stated: when the run has failed the file holds the prefix, the
\* marker and the first command's block
C6_Original ==
    (pc = "failed" /\ SecondOfTwoFailed) =>
        /\ Len(captured) = 1
        /\ disk = PrefixMarkerFirstBlock

\* C7 (amended): errors abort the run: once an exception is raised the run
\* has stopped and is never done, a failing command is the last one invoked,
\* a failing open has invoked none and left the file as it was, and after the
\* failure no command is invoked, nothing more is handed to the write handle,
\* and nothing is retried or restored: the file changes only by the flush of
\* what was written before the failure.
C7_ErrorsAbort ==
    /\ [](error # "none" => Stopped)
    /\ [](Stopped =>
            /\ error # "none"
            /\ FailedAtOpenRead \/ FailedAtOpenWrite \/ FailedAtCommand
            /\ FailedAtCommand => invoked = [k \in 1..i |-> k] /\ Len(captured) = i - 1
            /\ ~FailedAtCommand => invoked = <<>> /\ disk = orig /\ buf = <<>>)
    /\ [][Stopped =>
            /\ pc' = "exited"
            /\ Written' = Written
            /\ IsPrefix(disk, disk')
            /\ UNCHANGED <<invoked, captured, i, error, run, exists>>]_vars

\* the first of two commands failed, or the open for writing did, and the
\* process has ended
C7_Witness ==
    /\ pc = "exited"
    /\ Len(cmds) = 2
    /\ \/ FailedAtCommand /\ i = 1
       \/ FailedAtOpenWrite

\* C7 as stated: after the failure nothing further is written to the file
C7_Original ==
    /\ [](error # "none" => Stopped)
    /\ [][Stopped =>
            /\ Stopped'
            /\ disk' = disk
            /\ UNCHANGED <<invoked, captured, i, error, run, exists>>]_vars

\* C8: file handles: never two handles open; the write handle is opened only
\* after the read handle, which read the whole content, is closed; writes go
\* to the open write handle, the file changes only through it (when it is
\* opened, while it is open, or as it is closed), and commands are invoked
\* only while it is open; a successful run has closed it after the last
\* block, with everything written in the file.
C8_HandleDiscipline ==
    /\ [](~(rh = "open" /\ wh = "open"))
    /\ [](wh # "none" => rh = "closed")
    /\ [](wh # "open" => buf = <<>>)
    /\ [](pc = "done" => rh = "closed" /\ wh = "closed"
                           /\ disk = data \o marker \o Regenerated)
    /\ [][(rh' = "open" /\ rh # "open") => (wh = "none" /\ wh' = "none")]_vars
    /\ [][(rh' = "closed" /\ rh = "open") => data = disk]_vars
    /\ [][(wh' = "open" /\ wh # "open") => (rh = "closed" /\ data = Prefix(orig))]_vars
    /\ [][Written' # Written => wh' = "open"]_vars
    /\ [][disk' # disk => (wh = "open" \/ wh' = "open")]_vars
    /\ [][(run' = run /\ invoked' # invoked) => (wh = "open" /\ wh' = "open")]_vars
    /\ [][(pc' = "done" /\ pc # "done") =>
            (wh = "open" /\ wh' = "closed" /\ Len(captured) = Len(cmds))]_vars

\* a run wrote two blocks and closed the file
C8_Witness ==
    /\ pc = "done"
    /\ wh = "closed"
    /\ rh = "closed"
    /\ Len(invoked) = 2

\* P + marker + the blocks of the commands before the failing one
PrefixMarkerEarlierBlocks ==
    LET p == IF MarkerSplits = {} THEN orig
             ELSE SubSeq(orig, 1, CHOOSE k \in MarkerSplits : TRUE)
    IN p \o marker \o Blocks(i - 1)

\* C9 (amended): truncation precedes the commands: when the first command
\* starts the file has been emptied and exactly the prefix and the marker
\* have been written to the handle, the file holding the flushed part of
\* them; when command k fails, what has been written is P + marker + the
\* blocks of commands 1..k-1 (P + marker alone for k = 1), a proper prefix of
\* what the run would have written whatever command k had printed; the file
\* holds the flushed part of it, and all of it once the write handle has
\* been finalised.
C9_TruncationFirst ==
    /\ (pc = "L21" /\ i = 1) =>
          /\ wh = "open"
          /\ Written = data \o marker
          /\ IsPrefix(disk, data \o marker)
    /\ FailedAtCommand =>
          LET w == Written
              expected == PrefixMarkerEarlierBlocks
          IN /\ w = expected
             /\ IsPrefix(disk, expected)
             /\ pc = "exited" => disk = expected
             /\ w = data \o marker \o Blocks(i - 1)
             /\ \A out \in Outputs :
                   IsProperPrefix(w, expected \o Block(cmds[i], out))

\* the first command failed on a file that had content after the marker, and
\* the write handle has been finalised
C9_Witness ==
    /\ FailedAtCommand
    /\ pc = "exited"
    /\ i = 1
    /\ \E k \in MarkerSplits : k + Len(marker) < Len(orig) /\ disk # orig

\* C9 as stated: the file holds the prefix and the marker when the first
\* command starts, and P + marker + the earlier blocks when command k fails
C9_Original ==
    /\ (pc = "L21" /\ i = 1) => disk = data \o marker
    /\ (pc = "failed" /\ wh = "open") => disk = PrefixMarkerEarlierBlocks

\* C10: read failure changes nothing: when the file is missing or unreadable
\* the run gets no further than line 12, fails there, and the file is neither
\* created nor modified, the write handle never opened, no command invoked.
C10_ReadFailure ==
    (~origExists \/ ~readable) =>
        /\ pc \in {"L12", "failed", "exited"}
        /\ exists = origExists
        /\ disk = orig
        /\ buf = <<>>
        /\ rh = "none"
        /\ wh = "none"
        /\ invoked = <<>>

\* the run failed at line 12, on a missing file or on an unreadable one
\* that had content
C10_Witness ==
    \/ FailedAtOpenRead /\ ~exists /\ error = "FileNotFoundError"
    \/ FailedAtOpenRead /\ exists /\ disk # <<>> /\ error = "PermissionError"

====
